---------------------------- MODULE Spec2Model ----------------------------
(***************************************************************************)
(* A model of CompanyDedupEngine (engine.py): name normalisation, blocking, *)
(* pairwise matching, union-find clustering, confidence scoring, the        *)
(* parallel verification and enrichment batches and canonical selection.    *)
(*                                                                          *)
(* A name is a sequence of one-character strings.  Confidences, ratios and  *)
(* thresholds are integers in hundredths (0.90 is 90).  Row indices are     *)
(* 0-based, as in the source.                                               *)
(***************************************************************************)
EXTENDS Integers, Sequences, FiniteSets, TLC

(***************************************************************************)
(* Characters and the string primitives of Python that the engine uses     *)
(***************************************************************************)
UPPER ==
  <<"A","B","C","D","E","F","G","H","I","J","K","L","M",
    "N","O","P","Q","R","S","T","U","V","W","X","Y","Z">>

LOWER ==
  <<"a","b","c","d","e","f","g","h","i","j","k","l","m",
    "n","o","p","q","r","s","t","u","v","w","x","y","z">>

DIGITS == <<"0","1","2","3","4","5","6","7","8","9">>

\* The characters of the model in code-point order (str comparison order).
ASCII == <<" ","&",",","-",".","/">> \o DIGITS \o UPPER \o <<"_">> \o LOWER

Range(s) == {s[k] : k \in DOMAIN s}

IndexOf(s, c) == CHOOSE k \in DOMAIN s : s[k] = c

Ord(c) == IndexOf(ASCII, c)

\* \w of the re module
IsWord(c) == c \in Range(UPPER) \cup Range(LOWER) \cup Range(DIGITS) \cup {"_"}

\* \s of the re module, str.strip() and str.split()
IsSpace(c) == c = " "

\* str.upper(), one character
UpperCh(c) == IF c \in Range(LOWER) THEN UPPER[IndexOf(LOWER, c)] ELSE c

\* str.upper()
upper(s) == [k \in DOMAIN s |-> UpperCh(s[k])]

RECURSIVE lstrip(_)
lstrip(s) == IF s # <<>> /\ IsSpace(Head(s)) THEN lstrip(Tail(s)) ELSE s

RECURSIVE rstrip(_)
rstrip(s) ==
  IF s # <<>> /\ IsSpace(s[Len(s)]) THEN rstrip(SubSeq(s, 1, Len(s) - 1)) ELSE s

\* str.strip()
strip(s) == rstrip(lstrip(s))

\* re.sub(r'\s+', ' ', s)
RECURSIVE collapse(_)
collapse(s) ==
  IF s = <<>> THEN <<>>
  ELSE IF IsSpace(Head(s))
       THEN <<" ">> \o collapse(lstrip(s))
       ELSE <<Head(s)>> \o collapse(Tail(s))

\* str.split(): the whitespace-delimited tokens, in order
RECURSIVE split(_)
split(s) ==
  LET t == lstrip(s)
      n == IF \E k \in DOMAIN t : IsSpace(t[k])
           THEN (CHOOSE k \in DOMAIN t :
                   IsSpace(t[k]) /\ \A m \in 1..(k - 1) : ~IsSpace(t[m])) - 1
           ELSE Len(t)
  IN  IF t = <<>> THEN <<>>
      ELSE <<SubSeq(t, 1, n)>> \o split(SubSeq(t, n + 1, Len(t)))

\* "".join(tokens)
RECURSIVE join(_)
join(ts) == IF ts = <<>> THEN <<>> ELSE Head(ts) \o join(Tail(ts))

\* a <= b for str
RECURSIVE StrLeq(_, _)
StrLeq(a, b) ==
  IF a = <<>> THEN TRUE
  ELSE IF b = <<>> THEN FALSE
  ELSE IF Head(a) = Head(b) THEN StrLeq(Tail(a), Tail(b))
  ELSE Ord(Head(a)) < Ord(Head(b))

\* insertion of x into the sorted list ts, after the elements equal to it
RECURSIVE InsertSorted(_, _)
InsertSorted(x, ts) ==
  IF ts = <<>> THEN <<x>>
  ELSE IF StrLeq(Head(ts), x) THEN <<Head(ts)>> \o InsertSorted(x, Tail(ts))
  ELSE <<x>> \o ts

\* sorted(tokens)
RECURSIVE sorted(_)
sorted(ts) ==
  IF ts = <<>> THEN <<>>
  ELSE InsertSorted(ts[Len(ts)], sorted(SubSeq(ts, 1, Len(ts) - 1)))

\* sorted(names, key=len, reverse=True): stable, longest first
RECURSIVE InsertByLen(_, _)
InsertByLen(x, ts) ==
  IF ts = <<>> THEN <<x>>
  ELSE IF Len(Head(ts)) >= Len(x) THEN <<Head(ts)>> \o InsertByLen(x, Tail(ts))
  ELSE <<x>> \o ts

RECURSIVE SortedByLenDesc(_)
SortedByLenDesc(ts) ==
  IF ts = <<>> THEN <<>>
  ELSE InsertByLen(ts[Len(ts)], SortedByLenDesc(SubSeq(ts, 1, Len(ts) - 1)))

\* \b at the position between s[p] and s[p+1]
WordBoundary(s, p) ==
  LET before == p >= 1 /\ IsWord(s[p])
      after  == p + 1 <= Len(s) /\ IsWord(s[p + 1])
  IN  before # after

\* re.sub(rf"\b{re.escape(tail)}$", "", s).strip()
StripTail(s, tail) ==
  LET p == Len(s) - Len(tail)
  IN  IF p >= 0 /\ SubSeq(s, p + 1, Len(s)) = tail /\ WordBoundary(s, p)
      THEN strip(SubSeq(s, 1, p))
      ELSE strip(s)

(***************************************************************************)
(* CompanyDedupEngine: tables of __init__                                   *)
(***************************************************************************)
\* the literal list of legal suffixes, as written in __init__
SuffixLiterals ==
  << <<"P","R","I","V","A","T","E"," ","L","I","M","I","T","E","D">>,
     <<"P","V","T"," ","L","T","D">>,
     <<"P","V","T","."," ","L","T","D",".">>,
     <<"L","T","D">>,
     <<"L","I","M","I","T","E","D">>,
     <<"L","L","C">>,
     <<"L","L","P">>,
     <<"P","L","C">>,
     <<"I","N","C">>,
     <<"I","N","C","O","R","P","O","R","A","T","E","D">>,
     <<"C","O">>,
     <<"C","O",".">>,
     <<"C","O","M","P","A","N","Y">>,
     <<"P","T","E"," ","L","T","D">>,
     <<"G","M","B","H">>,
     <<"G","M","B","H"," ","&"," ","C","O"," ","K","G">>,
     <<"B",".","V",".">>,
     <<"A","/","S">>,
     <<"S",".","A","."," ","D","E"," ","C",".","V",".">>,
     <<"S","P"," ","Z"," ","O"," ","O">>,
     <<"S","P"," ","Z","O","O">>,
     <<"S"," ","R"," ","L">>,
     <<"S",".","R",".","L",".">>,
     <<"S"," ","A">>,
     <<"S",".","P",".","A",".">>,
     <<"S","A"," ","D","E"," ","C","V">> >>

\* self.suffixes: ordered by length descending
suffixes == SortedByLenDesc(SuffixLiterals)

\* the literal list of country tokens, as written in __init__
CountryLiterals ==
  << <<"I","N","D","I","A">>,
     <<"U","S","A">>,
     <<"U","A","E">>,
     <<"C","H","I","N","A">>,
     <<"J","A","P","A","N">>,
     <<"K","O","R","E","A">>,
     <<"S","I","N","G","A","P","O","R","E">>,
     <<"M","A","L","A","Y","S","I","A">>,
     <<"C","A","N","A","D","A">>,
     <<"B","R","A","Z","I","L">>,
     <<"G","E","R","M","A","N","Y">>,
     <<"F","R","A","N","C","E">>,
     <<"I","T","A","L","Y">>,
     <<"U","N","I","T","E","D"," ","S","T","A","T","E","S">>,
     <<"U","N","I","T","E","D"," ","K","I","N","G","D","O","M">>,
     <<"H","O","N","G"," ","K","O","N","G">>,
     <<"N","E","W"," ","Z","E","A","L","A","N","D">>,
     <<"S","O","U","T","H"," ","A","F","R","I","C","A">>,
     <<"S","A","U","D","I"," ","A","R","A","B","I","A">>,
     <<"C","O","T","E"," ","D","I","V","O","I","R","E">> >>

\* self.countries: ordered by length descending
countries == SortedByLenDesc(CountryLiterals)

\* the default entries of self.acronym_map, key |-> value
DefaultAcronyms ==
  << << <<"I","B","M"," ","I","N","D","I","A">>, <<"I","B","M">> >>,
     << <<"T","C","S">>, <<"T","A","T","A"," ","C","O","N","S","U","L","T","A","N","C","Y"," ","S","E","R","V","I","C","E","S">> >>,
     << <<"H","D","F","C">>, <<"H","D","F","C"," ","B","A","N","K">> >> >>

\* a missing value (None / NaN) in the name column
NaN == <<"NaN">>

\* a key that a row dict does not have yet
Unset == <<"unset">>

(***************************************************************************)
(* CompanyDedupEngine: the pure methods                                     *)
(***************************************************************************)
\* normalize(name)
normalize(name) ==
  IF name = NaN \/ name = <<>> THEN <<>>
  ELSE LET up  == upper(name)
           sub == [k \in DOMAIN up |->
                     IF IsWord(up[k]) \/ IsSpace(up[k]) \/ up[k] \in {"&", "/", "-"}
                     THEN up[k] ELSE " "]
       IN  strip(collapse(sub))

\* one pass of "for t in tails: name = re.sub(...).strip()"
RECURSIVE StripPass(_, _)
StripPass(name, tails) ==
  IF tails = <<>> THEN name
  ELSE StripPass(StripTail(name, Head(tails)), Tail(tails))

\* "while name != prev_name" around the pass, prev_name starting as ""
RECURSIVE StripLoop(_, _, _)
StripLoop(name, prev_name, tails) ==
  IF name = prev_name THEN name
  ELSE StripLoop(StripPass(name, tails), name, tails)

\* strip_suffixes(name)
strip_suffixes(name) == StripLoop(name, <<>>, suffixes)

\* fold_subsidiaries(name)
fold_subsidiaries(no_subsidiary_fold, name) ==
  IF no_subsidiary_fold THEN name ELSE StripLoop(name, <<>>, countries)

\* self.acronym_map after update(settings['add_map']): later entries win
acronym_map(add_map) == DefaultAcronyms \o add_map

\* self.acronym_map[base] when base is a key, base otherwise
RECURSIVE MapLookup(_, _)
MapLookup(map, base) ==
  IF map = <<>> THEN base
  ELSE IF map[Len(map)][1] = base THEN map[Len(map)][2]
  ELSE MapLookup(SubSeq(map, 1, Len(map) - 1), base)

\* get_base_name(name): the pair (norm, base)
get_base_name(st, name) ==
  LET norm == normalize(name)
      base == fold_subsidiaries(st.no_subsidiary_fold, strip_suffixes(norm))
  IN  <<norm, MapLookup(acronym_map(st.add_map), base)>>

NONE == <<"NONE">>

\* get_block_key(base_name); the key f"{c}_{bucket}_{token}" is kept as the
\* triple it is formatted from
get_block_key(base_name) ==
  IF base_name = <<>> THEN NONE
  ELSE LET tokens == split(base_name)
       IN  << base_name[1], Len(base_name) \div 5,
              IF tokens # <<>> THEN tokens[1] ELSE NONE >>

\* get_token_sorted_match(s1, s2)
get_token_sorted_match(s1, s2) == join(sorted(split(s1))) = join(sorted(split(s2)))

\* calculate_confidence(ratio, is_token_match): the pair (confidence, reason)
calculate_confidence(ratio, is_token_match) ==
  IF is_token_match /\ ratio >= 90
    THEN <<98, "token-sorted match AND ratio >= 0.90">>
  ELSE IF ratio >= 90 THEN <<95, "ratio >= 0.90">>
  ELSE IF ratio >= 85 THEN <<88, "ratio >= 0.85">>
  ELSE <<70, "Isolated or weak match">>

\* the match condition of the merge loop
is_match(st, ratio, is_token_match) ==
  \/ is_token_match /\ ratio >= st.soft
  \/ ratio >= st.hard

(***************************************************************************)
(* Bounds and inputs                                                        *)
(***************************************************************************)
\* the largest number of rows of the input frame
MaxRows == 3

\* the largest number of rows of a frame processed with one batch switched on
MaxBatch == 2

\* the largest number of rows of a frame processed with both batches switched on
MaxBoth == 1

\* the names a row of the input column is drawn from
Names ==
  { <<"L","t","d",".">>,
    <<"I","B","M"," ","I","n","d","i","a"," ","P","v","t"," ","L","t","d">>,
    <<"G","e"," ","O","i","l"," ","G","a","s"," ","I","n","c",".">>,
    <<"G","E"," ","G","A","S"," ","O","I","L">>,
    <<"G","E"," ","O","I","L"," ","G","A","S"," ","U","S","A">> }

\* one user mapping, as the callers pass it in settings['add_map']
UserMap == << << <<"I","B","M"," ","I","N","D","I","A">>, <<"I","B","M"," ","G","L","O","B","A","L">> >> >>

\* (hard, soft) as the callers may pass them; the constructor takes any number
Thresholds == { <<90, 85>>, <<100, 85>>, <<80, 80>>, <<150, 85>>, <<90, -10>> }

\* the switches of the settings when no batch is run
PlainFeatures ==
  { [web_search |-> FALSE, enrichment |-> FALSE, agentic |-> FALSE,
     no_subsidiary_fold |-> FALSE, add_map |-> <<>>],
    [web_search |-> FALSE, enrichment |-> FALSE, agentic |-> FALSE,
     no_subsidiary_fold |-> TRUE, add_map |-> UserMap] }

\* the switches of the settings that run the verification or enrichment batch
BatchFeatures ==
  { [web_search |-> TRUE, enrichment |-> FALSE, agentic |-> FALSE,
     no_subsidiary_fold |-> TRUE, add_map |-> <<>>],
    [web_search |-> TRUE, enrichment |-> FALSE, agentic |-> TRUE,
     no_subsidiary_fold |-> FALSE, add_map |-> <<>>],
    [web_search |-> FALSE, enrichment |-> TRUE, agentic |-> FALSE,
     no_subsidiary_fold |-> FALSE, add_map |-> <<>>],
    [web_search |-> TRUE, enrichment |-> TRUE, agentic |-> FALSE,
     no_subsidiary_fold |-> FALSE, add_map |-> <<>>] }

\* the settings dict of a pair of thresholds and a set of switches
MakeSettings(th, f) ==
  [hard |-> th[1], soft |-> th[2], web_search |-> f.web_search,
   enrichment |-> f.enrichment, agentic |-> f.agentic,
   no_subsidiary_fold |-> f.no_subsidiary_fold, add_map |-> f.add_map]

\* the settings dicts the engine is constructed with
Settings ==
  {MakeSettings(th, f) : th \in Thresholds, f \in PlainFeatures}
    \cup {MakeSettings(<<90, 85>>, f) : f \in BatchFeatures}

\* the values jaro_winkler_similarity may give two different names
Ratios == {70, 82, 87, 93}

\* the input frames of at most max rows: row index 0..n-1 |-> name
Frames(max) == UNION { [0..(n - 1) -> Names] : n \in 1..max }

(***************************************************************************)
(* State                                                                    *)
(***************************************************************************)
VARIABLES
  pc,          \* the position of the caller / of process
  settings,    \* self.settings and the attributes __init__ reads from it
  df,          \* the input column
  rows,        \* rows: row index |-> row dict
  parent,      \* the union-find parent list
  blocks,      \* blocks: the (block_key, indices) items in insertion order
  pairs,       \* the (idx1, idx2) pairs in the order the merge loop visits them
  pp,          \* the position of the merge loop in pairs
  clusters,    \* clusters: the (root, indices) items in insertion order
  jw,          \* the ratios the similarity library has given so far
  accepted,    \* history: the pairs the match condition has accepted
  merges,      \* history: the union calls that joined two sets, with the score
  to_verify,   \* to_verify: the (root, base, member_indices) items
  vfut,        \* future_to_cluster: one future per item of to_verify
  enrich       \* canonical_list, domain_futures, industry_futures, enriched_data

vars == <<pc, settings, df, rows, parent, blocks, pairs, pp, clusters, jw,
          accepted, merges, to_verify, vfut, enrich>>

\* the variables of the clustering steps
cvars == <<settings, df, parent, blocks, pairs, pp, clusters, jw, accepted, merges>>

N == Cardinality(DOMAIN df)

Idx == DOMAIN rows

(***************************************************************************)
(* Union-find (process.find, process.union)                                 *)
(***************************************************************************)
\* the value find(i) returns
RECURSIVE Root(_, _)
Root(p, i) == IF p[i] = i THEN i ELSE Root(p, p[i])

\* the indices find(i) assigns to: i and its ancestors below the root
RECURSIVE PathTo(_, _)
PathTo(p, i) == IF p[i] = i THEN {} ELSE {i} \cup PathTo(p, p[i])

\* the parent list after find(i): path compression
find(p, i) == [k \in DOMAIN p |-> IF k \in PathTo(p, i) THEN Root(p, i) ELSE p[k]]

\* union as it would be with the row itself, not its root, linked to root_j
union_links_row(p, rs, i, j, ratio, is_token_match) ==
  LET p1     == find(p, i)
      root_i == Root(p, i)
      p2     == find(p1, j)
      root_j == Root(p1, j)
      cr     == calculate_confidence(ratio, is_token_match)
  IN  IF root_i # root_j
      THEN << [p2 EXCEPT ![i] = root_j],
              [rs EXCEPT ![i].confidence = IF @ >= cr[1] THEN @ ELSE cr[1],
                         ![i].reason = << [tag |-> cr[2], text |-> <<>>] >>] >>
      ELSE << p2, rs >>

\* union as it would be with the new score assigned without max
union_assigns_confidence(p, rs, i, j, ratio, is_token_match) ==
  LET p1     == find(p, i)
      root_i == Root(p, i)
      p2     == find(p1, j)
      root_j == Root(p1, j)
      cr     == calculate_confidence(ratio, is_token_match)
  IN  IF root_i # root_j
      THEN << [p2 EXCEPT ![root_i] = root_j],
              [rs EXCEPT ![i].confidence = cr[1],
                         ![i].reason = << [tag |-> cr[2], text |-> <<>>] >>] >>
      ELSE << p2, rs >>

\* union as it would be with root_j attached below root_i
union_root_of_i_wins(p, rs, i, j, ratio, is_token_match) ==
  LET p1     == find(p, i)
      root_i == Root(p, i)
      p2     == find(p1, j)
      root_j == Root(p1, j)
      cr     == calculate_confidence(ratio, is_token_match)
  IN  IF root_i # root_j
      THEN << [p2 EXCEPT ![root_j] = root_i],
              [rs EXCEPT ![i].confidence = IF @ >= cr[1] THEN @ ELSE cr[1],
                         ![i].reason = << [tag |-> cr[2], text |-> <<>>] >>] >>
      ELSE << p2, rs >>

\* union(i, j, ratio, is_token_match): the pair (parent, rows) afterwards
union(p, rs, i, j, ratio, is_token_match) ==
  LET p1     == find(p, i)
      root_i == Root(p, i)
      p2     == find(p1, j)
      root_j == Root(p1, j)
      cr     == calculate_confidence(ratio, is_token_match)
  IN  IF root_i # root_j
      THEN << [p2 EXCEPT ![root_i] = root_j],
              [rs EXCEPT ![i].confidence = IF @ >= cr[1] THEN @ ELSE cr[1],
                         ![i].reason = << [tag |-> cr[2], text |-> <<>>] >>] >>
      ELSE << p2, rs >>

(***************************************************************************)
(* process, steps 1 to 3                                                    *)
(***************************************************************************)
\* the row dict step 1 appends for row i
NewRow(st, i, orig) ==
  LET nb == get_base_name(st, orig)
  IN  [row_order |-> i, original_name |-> orig, normalized_name |-> nb[1],
       base_name |-> nb[2], block_key |-> get_block_key(nb[2]),
       cluster_id |-> i, confidence |-> 70,
       reason |-> << [tag |-> "Isolated or weak match", text |-> <<>>] >>,
       web_canonical |-> Unset, canonical_name |-> Unset, cluster_size |-> 0,
       website |-> Unset, industry |-> Unset]

\* d[key].append(i) on an insertion-ordered defaultdict(list)
AppendTo(d, key, i) ==
  IF \E k \in DOMAIN d : d[k][1] = key
  THEN [k \in DOMAIN d |-> IF d[k][1] = key THEN <<key, Append(d[k][2], i)>> ELSE d[k]]
  ELSE Append(d, <<key, <<i>>>>)

\* the grouping as it would be without the test of the base name
RECURSIVE GroupBlocksAll(_, _)
GroupBlocksAll(rs, n) ==
  IF n = 0 THEN <<>>
  ELSE AppendTo(GroupBlocksAll(rs, n - 1), rs[n - 1].block_key, n - 1)

\* blocks after the rows 0..n-1 have been grouped
RECURSIVE GroupBlocks(_, _)
GroupBlocks(rs, n) ==
  IF n = 0 THEN <<>>
  ELSE LET d == GroupBlocks(rs, n - 1)
       IN  IF rs[n - 1].base_name # <<>>
           THEN AppendTo(d, rs[n - 1].block_key, n - 1)
           ELSE d

\* the pairs of one block: for i in range(len), for j in range(i + 1, len)
RECURSIVE PairsFrom(_, _, _)
PairsFrom(indices, i, j) ==
  IF i > Len(indices) THEN <<>>
  ELSE IF j > Len(indices) THEN PairsFrom(indices, i + 1, i + 2)
  ELSE << <<indices[i], indices[j]>> >> \o PairsFrom(indices, i, j + 1)

\* the pairs of all blocks: for block_key, indices in blocks.items()
RECURSIVE AllPairs(_)
AllPairs(d) ==
  IF d = <<>> THEN <<>> ELSE PairsFrom(Head(d)[2], 1, 2) \o AllPairs(Tail(d))

Init ==
  /\ pc = "new"
  /\ settings \in Settings
  /\ df \in Frames(IF settings.web_search /\ settings.enrichment THEN MaxBoth
                    ELSE IF settings.web_search \/ settings.enrichment THEN MaxBatch
                    ELSE MaxRows)
  /\ rows = <<>>
  /\ parent = <<>>
  /\ blocks = <<>>
  /\ pairs = <<>>
  /\ pp = 1
  /\ clusters = <<>>
  /\ jw = {}
  /\ accepted = {}
  /\ merges = {}
  /\ to_verify = <<>>
  /\ vfut = <<>>
  /\ enrich = <<>>

\* column values with missing cells: a null cell, an empty string, a name of
\* one legal suffix, a name of one country, and a name that keeps a base
MissingNames ==
  { NaN, <<>>, <<"L","t","d",".">>, <<"U","S","A">>,
    <<"G","E"," ","G","A","S"," ","O","I","L">> }

\* the input frames of at most max rows over the values with missing cells
MissingFrames(max) == UNION { [0..(n - 1) -> MissingNames] : n \in 1..max }

\* the state before construction, for a column with missing cells
InitMissing ==
  /\ pc = "new"
  /\ settings \in Settings
  /\ df \in MissingFrames(IF settings.web_search /\ settings.enrichment THEN MaxBoth
                           ELSE IF settings.web_search \/ settings.enrichment THEN MaxBatch
                           ELSE MaxRows)
  /\ rows = <<>>
  /\ parent = <<>>
  /\ blocks = <<>>
  /\ pairs = <<>>
  /\ pp = 1
  /\ clusters = <<>>
  /\ jw = {}
  /\ accepted = {}
  /\ merges = {}
  /\ to_verify = <<>>
  /\ vfut = <<>>
  /\ enrich = <<>>

\* the number of legal suffixes appended to the base token of an input name
MaxSuffixes == 2

\* a base token that contains no legal suffix, no country and no acronym
BaseToken == <<"A","C","M","E">>

\* legal suffixes of self.suffixes that normalize leaves as they are
KnownSuffixes ==
  { <<"P","V","T"," ","L","T","D">>, <<"L","I","M","I","T","E","D">>,
    <<"L","T","D">>, <<"I","N","C">>, <<"C","O">> }

\* the base token followed by at most n space-separated legal suffixes
RECURSIVE SuffixedNames(_)
SuffixedNames(n) ==
  IF n = 0 THEN {BaseToken}
  ELSE SuffixedNames(n - 1)
         \cup {s \o <<" ">> \o x : s \in SuffixedNames(n - 1), x \in KnownSuffixes}

\* the state before construction, for a one-row column of suffixed names
InitSuffixes ==
  /\ pc = "new"
  /\ settings \in Settings
  /\ df \in [0..0 -> SuffixedNames(MaxSuffixes)]
  /\ rows = <<>>
  /\ parent = <<>>
  /\ blocks = <<>>
  /\ pairs = <<>>
  /\ pp = 1
  /\ clusters = <<>>
  /\ jw = {}
  /\ accepted = {}
  /\ merges = {}
  /\ to_verify = <<>>
  /\ vfut = <<>>
  /\ enrich = <<>>

\* CompanyDedupEngine(settings): __init__ stores the settings as given
Construct ==
  /\ pc = "new"
  /\ pc' = "constructed"
  /\ UNCHANGED <<settings, df, rows, parent, blocks, pairs, pp, clusters, jw,
                 accepted, merges, to_verify, vfut, enrich>>

\* step 1: one row dict per row of the frame
CreateRows ==
  /\ pc = "constructed"
  /\ rows' = [i \in DOMAIN df |-> NewRow(settings, i, df[i])]
  /\ pc' = "rows"
  /\ UNCHANGED <<settings, df, parent, blocks, pairs, pp, clusters, jw,
                 accepted, merges, to_verify, vfut, enrich>>

\* step 2, set-up: parent = list(range(len(rows))) and the grouping by block
GroupByBlock ==
  /\ pc = "rows"
  /\ parent' = [i \in DOMAIN rows |-> i]
  /\ blocks' = GroupBlocks(rows, N)
  /\ pairs' = AllPairs(blocks')
  /\ pp' = 1
  /\ pc' = "match"
  /\ UNCHANGED <<settings, df, rows, clusters, jw, accepted, merges, to_verify,
                 vfut, enrich>>

\* get_ratio(b1, b2): 1.0 for equal names; otherwise the library's value,
\* the same for the same two names every time
RatioChoices(b1, b2) ==
  IF b1 = b2 THEN {100}
  ELSE IF \E e \in jw : e[1] = b1 /\ e[2] = b2
       THEN {e[3] : e \in {x \in jw : x[1] = b1 /\ x[2] = b2}}
       ELSE Ratios

\* step 2, one iteration of the innermost loop
MatchPair ==
  /\ pc = "match"
  /\ pp <= Len(pairs)
  /\ LET idx1 == pairs[pp][1]
         idx2 == pairs[pp][2]
         b1   == rows[idx1].base_name
         b2   == rows[idx2].base_name
         is_token_match == get_token_sorted_match(b1, b2)
     IN  \E ratio \in RatioChoices(b1, b2) :
           /\ jw' = IF b1 = b2 THEN jw ELSE jw \cup {<<b1, b2, ratio>>}
           /\ IF is_match(settings, ratio, is_token_match)
              THEN LET u == union(parent, rows, idx1, idx2, ratio, is_token_match)
                   IN  /\ parent' = u[1]
                       /\ rows' = u[2]
                       /\ accepted' = accepted \cup {<<idx1, idx2>>}
                       /\ merges' =
                            IF Root(parent, idx1) # Root(parent, idx2)
                            THEN merges \cup
                                   {<<idx1, idx2,
                                      calculate_confidence(ratio, is_token_match)[1]>>}
                            ELSE merges
              ELSE UNCHANGED <<parent, rows, accepted, merges>>
  /\ pp' = pp + 1
  /\ UNCHANGED <<pc, settings, df, blocks, pairs, clusters, to_verify, vfut, enrich>>

\* the parent list after find(0), ..., find(n - 1)
RECURSIVE FindAll(_, _)
FindAll(p, n) == IF n = 0 THEN p ELSE find(FindAll(p, n - 1), n - 1)

\* the clusters as they would be with parent[i] in the place of find(i)
RECURSIVE GroupClustersByParent(_, _)
GroupClustersByParent(p, n) ==
  IF n = 0 THEN <<>>
  ELSE AppendTo(GroupClustersByParent(p, n - 1), p[n - 1], n - 1)

\* clusters after the rows 0..n-1 have been added under their roots
RECURSIVE GroupClusters(_, _)
GroupClusters(p, n) ==
  IF n = 0 THEN <<>> ELSE AppendTo(GroupClusters(p, n - 1), Root(p, n - 1), n - 1)

\* step 3: cluster ids, clusters, and the empty base names
Finalize ==
  /\ pc = "match"
  /\ pp > Len(pairs)
  /\ parent' = FindAll(parent, N)
  /\ clusters' = GroupClusters(parent, N)
  /\ rows' = [i \in DOMAIN rows |->
               IF rows[i].base_name = <<>>
               THEN [rows[i] EXCEPT
                       !.cluster_id = Root(parent, i),
                       !.confidence = 50,
                       !.reason = << [tag |-> "No base name after cleaning; kept as singleton",
                                      text |-> <<>>] >>]
               ELSE [rows[i] EXCEPT !.cluster_id = Root(parent, i)]]
  /\ pc' = "finalized"
  /\ UNCHANGED <<settings, df, blocks, pairs, pp, jw, accepted, merges,
                 to_verify, vfut, enrich>>

(***************************************************************************)
(* process, step 4: the verification batch                                  *)
(***************************************************************************)
\* what the search / AI service does with one request of the verification:
\* it fails, finds nothing, gives the queried name back, or gives another name
Responses == {"raise", "empty", "echo", "hit"}

\* what the search does with one request of the enrichment
SearchResponses == {"raise", "empty", "hit"}

\* titles of a first search result
HitTitle == <<"G","E"," ","A","e","r","o","s","p","a","c","e"," ","-"," ","H","o","m","e">>

EchoTitle(name) == name \o <<" ","|"," ","O","f","f","i","c","i","a","l"," ","S","i","t","e">>

\* answers of the language model
HitLegalName == <<"G","e","n","e","r","a","l"," ","E","l","e","c","t","r","i","c"," ","C","o">>

HitReason == <<"p","e","r"," ","f","i","l","i","n","g","s">>

\* None
None == <<"None">>

\* the result of a future whose call raised: future.result() raises again
Raised == <<"Raised">>

\* str.lower(), used to build an answer that differs from the query in case
lower(s) ==
  [k \in DOMAIN s |-> IF s[k] \in Range(UPPER) THEN LOWER[IndexOf(UPPER, s[k])] ELSE s[k]]

\* at position k of s starts one of the separators ' - ', ' | ', ': '
SeparatorAt(s, k) ==
  \/ k + 2 <= Len(s) /\ SubSeq(s, k, k + 2) \in {<<" ", "-", " ">>, <<" ", "|", " ">>}
  \/ k + 1 <= Len(s) /\ SubSeq(s, k, k + 1) = <<":", " ">>

\* re.split(r' - | \| |: ', title)[0]
FirstSegment(title) ==
  IF \E k \in DOMAIN title : SeparatorAt(title, k)
  THEN LET k == CHOOSE m \in DOMAIN title :
                  SeparatorAt(title, m) /\ \A q \in 1..(m - 1) : ~SeparatorAt(title, q)
       IN  SubSeq(title, 1, k - 1)
  ELSE title

\* web_verify(name), given what the search does
web_verify(name, resp) ==
  IF name = <<>> THEN name
  ELSE IF resp \in {"raise", "empty"} THEN name
  ELSE LET title == IF resp = "echo" THEN EchoTitle(name) ELSE HitTitle
       IN  upper(strip(FirstSegment(title)))

\* agentic_research(model, name), given what the search and the model do:
\* None, or the parsed dict
agentic_research(name, resp) ==
  IF name = <<>> THEN [is_dict |-> FALSE, name |-> None, reason |-> <<>>]
  ELSE IF resp \in {"raise", "empty"}
    THEN [is_dict |-> FALSE, name |-> None, reason |-> <<>>]
  ELSE IF resp = "echo"
    THEN [is_dict |-> TRUE, name |-> lower(name), reason |-> HitReason]
  ELSE [is_dict |-> TRUE, name |-> HitLegalName, reason |-> HitReason]

\* use_ai = agentic_mode and api_key
use_ai(st) == st.agentic

\* to_verify as it would be without the "if base" test
RECURSIVE ToVerifyAnyBase(_, _, _)
ToVerifyAnyBase(rs, cl, n) ==
  IF n = 0 THEN <<>>
  ELSE LET root == cl[n][1]
           member_indices == cl[n][2]
           example_idx == member_indices[1]
           base == rs[example_idx].base_name
       IN  IF rs[example_idx].confidence < 90
           THEN Append(ToVerifyAnyBase(rs, cl, n - 1), <<root, base, member_indices>>)
           ELSE ToVerifyAnyBase(rs, cl, n - 1)

\* the items of to_verify, from the first n clusters
RECURSIVE ToVerify(_, _, _)
ToVerify(rs, cl, n) ==
  IF n = 0 THEN <<>>
  ELSE LET root == cl[n][1]
           member_indices == cl[n][2]
           example_idx == member_indices[1]
           base == rs[example_idx].base_name
       IN  IF rs[example_idx].confidence < 90 /\ base # <<>>
           THEN Append(ToVerify(rs, cl, n - 1), <<root, base, member_indices>>)
           ELSE ToVerify(rs, cl, n - 1)

\* the body of the as_completed loop as it would be with the reason assigned,
\* not appended to
ApplyVerificationReplacing(st, rs, item, resp) ==
  LET base == item[2]
      members == {item[3][k] : k \in DOMAIN item[3]}
      name == IF st.agentic
              THEN (IF resp \in {"raise", "empty"} THEN <<>>
                    ELSE IF resp = "echo" THEN base
                    ELSE HitLegalName)
              ELSE (IF resp = "hit" THEN <<"G","E"," ","A","E","R","O","S","P","A","C","E">>
                    ELSE base)
  IN  IF name # <<>> /\ upper(name) # upper(base)
      THEN [i \in DOMAIN rs |->
             IF i \in members
             THEN [rs[i] EXCEPT
                     !.web_canonical = name,
                     !.reason = << [tag |-> " | Web verified: ", text |-> name] >>]
             ELSE rs[i]]
      ELSE rs

\* the body of "for future in as_completed(...)" for one item: the rows after;
\* an exception of future.result() is caught and passed over
ApplyVerification(st, rs, item, resp) ==
  LET base == item[2]
      members == Range(item[3])
      ai == agentic_research(base, resp)
      std == web_verify(base, resp)
  IN  IF use_ai(st)
      THEN IF ai.is_dict
           THEN IF ai.name # None /\ ai.name # <<>> /\ upper(ai.name) # upper(base)
                THEN [i \in DOMAIN rs |->
                       IF i \in members
                       THEN [rs[i] EXCEPT
                               !.web_canonical = ai.name,
                               !.reason = Append(@, [tag |-> " | AI Verified: ",
                                                     text |-> ai.reason])]
                       ELSE rs[i]]
                ELSE rs
           ELSE rs
      ELSE IF std # Raised /\ std # <<>> /\ std # upper(base)
           THEN [i \in DOMAIN rs |->
                  IF i \in members
                  THEN [rs[i] EXCEPT
                          !.web_canonical = std,
                          !.reason = Append(@, [tag |-> " | Web verified: ",
                                                text |-> std])]
                  ELSE rs[i]]
           ELSE rs

\* step 4 is skipped: web search is off
SkipVerification ==
  /\ pc = "finalized"
  /\ ~settings.web_search
  /\ pc' = "verified"
  /\ UNCHANGED <<settings, df, rows, parent, blocks, pairs, pp, clusters, jw,
                 accepted, merges, to_verify, vfut, enrich>>

\* step 4 as it would be if it ran ahead of the merge loop
SubmitVerificationEarly ==
  /\ pc = "match"
  /\ settings.web_search
  /\ clusters' = [k \in 1..N |-> <<Root(parent, k - 1), <<k - 1>>>>]
  /\ to_verify' = [k \in 1..N |-> <<Root(parent, k - 1), rows[k - 1].base_name, <<k - 1>>>>]
  /\ vfut' = [k \in 1..N |-> [state |-> "running", resp |-> "none"]]
  /\ pc' = "verifying"
  /\ UNCHANGED <<settings, df, rows, parent, blocks, pairs, pp, jw, accepted, merges,
                 enrich>>

\* step 4: to_verify is built and one call per item is submitted to the pool
SubmitVerification ==
  /\ pc = "finalized"
  /\ settings.web_search
  /\ to_verify' = ToVerify(rows, clusters, Len(clusters))
  /\ vfut' = [k \in DOMAIN to_verify' |-> [state |-> "running", resp |-> "none"]]
  /\ pc' = IF to_verify' # <<>> THEN "verifying" ELSE "verified"
  /\ UNCHANGED <<settings, df, rows, parent, blocks, pairs, pp, clusters, jw,
                 accepted, merges, enrich>>

\* a worker thread finishes the call of item k
VerifyCallReturns(k) ==
  /\ pc = "verifying"
  /\ vfut[k].state = "running"
  /\ vfut' = [vfut EXCEPT ![k].state = "done"]
  /\ UNCHANGED <<pc, settings, df, rows, parent, blocks, pairs, pp, clusters, jw,
                 accepted, merges, to_verify, enrich>>

\* the loop body as it would be if it paired the results, in the order they
\* complete, with the items in the order they were submitted
CollectVerificationInOrder(k) ==
  /\ pc = "verifying"
  /\ vfut[k].state = "done"
  /\ \E resp \in Responses :
       /\ vfut' = [vfut EXCEPT ![k] = [state |-> "collected", resp |-> resp]]
       /\ rows' = ApplyVerification(settings, rows,
                     to_verify[1 + Cardinality({m \in DOMAIN vfut :
                                                  vfut[m].state = "collected"})],
                     resp)
  /\ UNCHANGED <<pc, settings, df, parent, blocks, pairs, pp, clusters, jw,
                 accepted, merges, to_verify, enrich>>

\* as_completed hands a finished future to the loop body, which reads the
\* result (the service's answer becomes known here) and writes the rows
CollectVerification(k) ==
  /\ pc = "verifying"
  /\ vfut[k].state = "done"
  /\ \E resp \in Responses :
       /\ vfut' = [vfut EXCEPT ![k] = [state |-> "collected", resp |-> resp]]
       /\ rows' = ApplyVerification(settings, rows, to_verify[k], resp)
  /\ UNCHANGED <<pc, settings, df, parent, blocks, pairs, pp, clusters, jw,
                 accepted, merges, to_verify, enrich>>

\* the loop over as_completed ends and the pool is shut down
EndVerification ==
  /\ pc = "verifying"
  /\ \A k \in DOMAIN vfut : vfut[k].state = "collected"
  /\ pc' = "verified"
  /\ UNCHANGED <<settings, df, rows, parent, blocks, pairs, pp, clusters, jw,
                 accepted, merges, to_verify, vfut, enrich>>

(***************************************************************************)
(* process, step 5: canonical names                                         *)
(***************************************************************************)
\* the number of occurrences of x in the list s
Count(s, x) == Cardinality({k \in DOMAIN s : s[k] = x})

\* the distinct values of s in the order of their first occurrence
RECURSIVE Distinct(_)
Distinct(s) ==
  IF s = <<>> THEN <<>>
  ELSE LET d == Distinct(SubSeq(s, 1, Len(s) - 1))
       IN  IF s[Len(s)] \in Range(d) THEN d ELSE Append(d, s[Len(s)])

\* the elements of s that are in the set keep, in order
RECURSIVE Filter(_, _)
Filter(s, keep) ==
  IF s = <<>> THEN <<>>
  ELSE (IF Head(s) \in keep THEN <<Head(s)>> ELSE <<>>) \o Filter(Tail(s), keep)

\* the selection as it would be without the frequency count: the first of the
\* shortest base names
CanonicalShortest(rs, member_indices) ==
  LET all == [k \in DOMAIN member_indices |-> rs[member_indices[k]].base_name]
      base_names == Filter(all, Range(all) \ {<<>>})
      candidates == Distinct(base_names)
      first == CHOOSE k \in DOMAIN candidates :
                 /\ \A m \in DOMAIN candidates : Len(candidates[k]) <= Len(candidates[m])
                 /\ \A m \in 1..(k - 1) : Len(candidates[m]) > Len(candidates[k])
  IN  IF base_names = <<>> THEN rs[member_indices[1]].normalized_name
      ELSE candidates[first]

\* the canonical name of the cluster with these members
Canonical(rs, member_indices) ==
  LET all == [k \in DOMAIN member_indices |-> rs[member_indices[k]].base_name]
      base_names == Filter(all, Range(all) \ {<<>>})
      \* counts = value_counts(); max_freq = counts.max()
      max_freq == CHOOSE c \in {Count(base_names, x) : x \in Range(base_names)} :
                    \A x \in Range(base_names) : Count(base_names, x) <= c
      \* counts[counts == max_freq].index.tolist(), in order of first occurrence
      candidates == Filter(Distinct(base_names),
                           {x \in Range(base_names) : Count(base_names, x) = max_freq})
      \* sorted(candidates, key=len)[0]: the first of the shortest candidates
      first == CHOOSE k \in DOMAIN candidates :
                 /\ \A m \in DOMAIN candidates : Len(candidates[k]) <= Len(candidates[m])
                 /\ \A m \in 1..(k - 1) : Len(candidates[m]) > Len(candidates[k])
  IN  IF base_names = <<>> THEN rs[member_indices[1]].normalized_name
      ELSE candidates[first]

\* the members of the cluster that row i was put into by step 3
MembersOf(cl, i) == (CHOOSE k \in DOMAIN cl : i \in Range(cl[k][2]))

\* step 5: canonical_name and cluster_size of every row
SelectCanonical ==
  /\ pc = "verified"
  /\ rows' = [i \in DOMAIN rows |->
               LET member_indices == clusters[MembersOf(clusters, i)][2]
               IN  [rows[i] EXCEPT
                      !.canonical_name = Canonical(rows, member_indices),
                      !.cluster_size = Len(member_indices)]]
  /\ pc' = "canonical"
  /\ UNCHANGED <<settings, df, parent, blocks, pairs, pp, clusters, jw,
                 accepted, merges, to_verify, vfut, enrich>>

(***************************************************************************)
(* process, step 6: the enrichment batch                                    *)
(***************************************************************************)
\* sub in s
Contains(s, sub) ==
  \E k \in 1..(Len(s) - Len(sub) + 1) : SubSeq(s, k, k + Len(sub) - 1) = sub

StartsWith(s, pre) == Len(s) >= Len(pre) /\ SubSeq(s, 1, Len(pre)) = pre

\* the hrefs of the search results of find_domain
SocialUrl == <<"h","t","t","p","s",":","/","/","w","w","w",".","l","i","n","k","e","d","i","n",".","c","o","m","/","c","o","m","p","a","n","y","/","g","e">>

SiteUrl == <<"h","t","t","p","s",":","/","/","w","w","w",".","G","E",".","c","o","m","/","a","b","o","u","t">>

\* the body of the search result of classify_industry
HitSnippet == <<"A"," ","r","e","t","a","i","l"," ","a","n","d"," ","f","i","n","a","n","c","e"," ","g","r","o","u","p">>

\* the domains find_domain does not take for a company's own
NonCompanyDomains ==
  { <<"l","i","n","k","e","d","i","n",".","c","o","m">>,
    <<"w","i","k","i","p","e","d","i","a",".","o","r","g">>,
    <<"f","a","c","e","b","o","o","k",".","c","o","m">>,
    <<"t","w","i","t","t","e","r",".","c","o","m">>,
    <<"g","l","a","s","s","d","o","o","r",".","c","o","m">> }

\* the keywords dict of classify_industry, in its order
keywords ==
  << [industry |-> <<"T","E","C","H","N","O","L","O","G","Y">>,
      keys |-> << <<"S","O","F","T","W","A","R","E">>,
                 <<"T","E","C","H">>,
                 <<"S","a","a","S">>,
                 <<"C","O","M","P","U","T","I","N","G">>,
                 <<"D","I","G","I","T","A","L">> >>],
     [industry |-> <<"F","I","N","A","N","C","E">>,
      keys |-> << <<"B","A","N","K">>,
                 <<"I","N","V","E","S","T","M","E","N","T">>,
                 <<"F","I","N","A","N","C","I","A","L">>,
                 <<"C","A","P","I","T","A","L">>,
                 <<"I","N","S","U","R","A","N","C","E">> >>],
     [industry |-> <<"H","E","A","L","T","H","C","A","R","E">>,
      keys |-> << <<"P","H","A","R","M","A">>,
                 <<"H","O","S","P","I","T","A","L">>,
                 <<"M","E","D","I","C","A","L">>,
                 <<"H","E","A","L","T","H">>,
                 <<"B","I","O","T","E","C","H">> >>],
     [industry |-> <<"R","E","T","A","I","L">>,
      keys |-> << <<"S","T","O","R","E">>,
                 <<"S","H","O","P">>,
                 <<"M","A","R","K","E","T">>,
                 <<"C","O","M","M","E","R","C","E">> >>],
     [industry |-> <<"M","A","N","U","F","A","C","T","U","R","I","N","G">>,
      keys |-> << <<"E","N","G","I","N","E","E","R","I","N","G">>,
                 <<"I","N","D","U","S","T","R","I","A","L">>,
                 <<"S","Y","S","T","E","M","S">>,
                 <<"E","L","E","C","T","R","O","N","I","C","S">> >>] >>

\* re.search(r'https?://(?:www\.)?([^/]+)', url).group(1).lower() for a url
\* that starts with its scheme; <<>> when there is no match
Domain(url) ==
  LET rest == IF StartsWith(url, <<"h","t","t","p","s",":","/","/">>) THEN SubSeq(url, 9, Len(url))
              ELSE IF StartsWith(url, <<"h","t","t","p",":","/","/">>) THEN SubSeq(url, 8, Len(url))
              ELSE <<>>
      host == IF StartsWith(rest, <<"w","w","w",".">>) /\ Len(rest) > 4 /\ rest[5] # "/"
              THEN SubSeq(rest, 5, Len(rest)) ELSE rest
      n    == IF \E k \in DOMAIN host : host[k] = "/"
              THEN (CHOOSE k \in DOMAIN host :
                      host[k] = "/" /\ \A m \in 1..(k - 1) : host[m] # "/") - 1
              ELSE Len(host)
  IN  lower(SubSeq(host, 1, n))

\* the loop of find_domain over the results
RECURSIVE FirstCompanyDomain(_)
FirstCompanyDomain(urls) ==
  IF urls = <<>> THEN <<>>
  ELSE LET domain == Domain(Head(urls))
       IN  IF domain # <<>> /\ ~\E x \in NonCompanyDomains : Contains(domain, x)
           THEN domain
           ELSE FirstCompanyDomain(Tail(urls))

\* find_domain as it would be without its try/except
find_domain_unguarded(name, resp) ==
  IF name = <<>> THEN <<>>
  ELSE IF resp = "raise" THEN <<"Raised">>
  ELSE FirstCompanyDomain(IF resp = "empty" THEN <<>> ELSE <<SocialUrl, SiteUrl>>)

\* find_domain(name), given what the search does
find_domain(name, resp) ==
  IF name = <<>> THEN <<>>
  ELSE IF resp = "raise" THEN <<>>
  ELSE FirstCompanyDomain(IF resp = "empty" THEN <<>> ELSE <<SocialUrl, SiteUrl>>)

\* the first industry of the dict for which Hit holds of one of its entries
RECURSIVE FirstIndustry(_, _, _)
FirstIndustry(kws, text, by_key) ==
  IF kws = <<>> THEN <<>>
  ELSE IF (IF by_key THEN \E k \in Range(Head(kws).keys) : Contains(text, k)
                     ELSE Contains(text, Head(kws).industry))
       THEN Head(kws).industry
       ELSE FirstIndustry(Tail(kws), text, by_key)

Unknown == <<"U","n","k","n","o","w","n">>

DiversifiedOther == <<"D","i","v","e","r","s","i","f","i","e","d","/","O","t","h","e","r">>

\* classify_industry(name), given what the search does
classify_industry(st, name, resp) ==
  IF name = <<>> THEN Unknown
  ELSE LET by_keyword == FirstIndustry(keywords, upper(name), TRUE)
           by_search ==
             IF resp \in {"raise", "empty"} THEN <<>>
             ELSE FirstIndustry(keywords, upper(HitSnippet), FALSE)
       IN  IF by_keyword # <<>> THEN by_keyword
           ELSE IF st.web_search /\ by_search # <<>> THEN by_search
           ELSE DiversifiedOther

\* find_domain(name) runs a search
DomainSearches(name) == name # <<>>

\* classify_industry(name) runs a search
IndustrySearches(st, name) ==
  name # <<>> /\ FirstIndustry(keywords, upper(name), TRUE) = <<>> /\ st.web_search

\* list(set(rows[idx]['canonical_name'] for idx in range(len(rows))))
canonical_list(rs) == Distinct([k \in 1..Cardinality(DOMAIN rs) |-> rs[k - 1].canonical_name])

\* step 6 is skipped: enrichment is off; process returns the rows
SkipEnrichment ==
  /\ pc = "canonical"
  /\ ~settings.enrichment
  /\ pc' = "returned"
  /\ UNCHANGED <<rows, to_verify, vfut, enrich>>
  /\ UNCHANGED cvars

\* step 6: both calls of every canonical name are submitted to the pool
\* (to_verify and future_to_cluster are out of scope by now)
SubmitEnrichment ==
  /\ pc = "canonical"
  /\ settings.enrichment
  /\ enrich' = [k \in DOMAIN canonical_list(rows) |->
                  [name |-> canonical_list(rows)[k],
                   domain_future |-> "running", industry_future |-> "running",
                   domain_resp |-> "none", industry_resp |-> "none",
                   website |-> Unset, industry |-> Unset]]
  /\ to_verify' = <<>>
  /\ vfut' = <<>>
  /\ pc' = "enriching"
  /\ UNCHANGED rows
  /\ UNCHANGED cvars

\* a worker thread finishes find_domain for entry k
DomainCallReturns(k) ==
  /\ pc = "enriching"
  /\ enrich[k].domain_future = "running"
  /\ enrich' = [enrich EXCEPT ![k].domain_future = "done"]
  /\ UNCHANGED <<pc, rows, to_verify, vfut>>
  /\ UNCHANGED cvars

\* a worker thread finishes classify_industry for entry k
IndustryCallReturns(k) ==
  /\ pc = "enriching"
  /\ enrich[k].industry_future = "running"
  /\ enrich' = [enrich EXCEPT ![k].industry_future = "done"]
  /\ UNCHANGED <<pc, rows, to_verify, vfut>>
  /\ UNCHANGED cvars

\* the domain loop as it would be if it wrote the result into the rows at once
CollectDomainEager(k) ==
  /\ pc = "enriching"
  /\ enrich[k].domain_future = "done"
  /\ \E resp \in IF enrich[k].name # <<>> THEN SearchResponses ELSE {"none"} :
       /\ enrich' = [enrich EXCEPT ![k].domain_future = "collected",
                                   ![k].domain_resp = resp,
                                   ![k].website = find_domain(enrich[k].name, resp)]
       /\ rows' = [i \in DOMAIN rows |->
                    IF rows[i].canonical_name = enrich[k].name
                    THEN [rows[i] EXCEPT !.website = find_domain(enrich[k].name, resp)]
                    ELSE rows[i]]
  /\ UNCHANGED <<pc, to_verify, vfut>>
  /\ UNCHANGED cvars

\* "for future in as_completed(domain_futures)": one finished future is read
\* (the service's answer becomes known here) and stored under its name; an
\* exception of future.result() leaves process
CollectDomain(k) ==
  /\ pc = "enriching"
  /\ enrich[k].domain_future = "done"
  /\ \E resp \in IF DomainSearches(enrich[k].name) THEN SearchResponses ELSE {"none"} :
       LET result == find_domain(enrich[k].name, resp)
       IN  IF result = Raised
           THEN pc' = "raised" /\ UNCHANGED enrich
           ELSE /\ enrich' = [enrich EXCEPT ![k].domain_future = "collected",
                                            ![k].domain_resp = resp,
                                            ![k].website = result]
                /\ UNCHANGED pc
  /\ UNCHANGED <<rows, to_verify, vfut>>
  /\ UNCHANGED cvars

\* "for future in as_completed(industry_futures)", entered when the loop
\* over the domain futures has ended
CollectIndustry(k) ==
  /\ pc = "enriching"
  /\ \A m \in DOMAIN enrich : enrich[m].domain_future = "collected"
  /\ enrich[k].industry_future = "done"
  /\ \E resp \in IF IndustrySearches(settings, enrich[k].name)
                 THEN SearchResponses ELSE {"none"} :
       LET result == classify_industry(settings, enrich[k].name, resp)
       IN  IF result = Raised
           THEN pc' = "raised" /\ UNCHANGED enrich
           ELSE /\ enrich' = [enrich EXCEPT ![k].industry_future = "collected",
                                            ![k].industry_resp = resp,
                                            ![k].industry = result]
                /\ UNCHANGED pc
  /\ UNCHANGED <<rows, to_verify, vfut>>
  /\ UNCHANGED cvars

\* enriched_data.get(can, {}).get(key, default)
Enriched(en, can, key, default) ==
  IF \E k \in DOMAIN en : en[k].name = can /\ en[k][key] # Unset
  THEN en[CHOOSE k \in DOMAIN en : en[k].name = can][key]
  ELSE default

\* the pool is shut down, the results are applied to all rows, process returns
ApplyEnrichment ==
  /\ pc = "enriching"
  /\ \A k \in DOMAIN enrich : enrich[k].industry_future = "collected"
  /\ rows' = [i \in DOMAIN rows |->
               [rows[i] EXCEPT
                  !.website = Enriched(enrich, rows[i].canonical_name, "website", <<>>),
                  !.industry = Enriched(enrich, rows[i].canonical_name, "industry", Unknown)]]
  /\ pc' = "returned"
  /\ UNCHANGED <<to_verify, vfut, enrich>>
  /\ UNCHANGED cvars

Next ==
  \/ Construct
  \/ CreateRows
  \/ GroupByBlock
  \/ MatchPair
  \/ Finalize
  \/ SkipVerification
  \/ SubmitVerification
  \/ \E k \in DOMAIN vfut : VerifyCallReturns(k)
  \/ \E k \in DOMAIN vfut : CollectVerification(k)
  \/ EndVerification
  \/ SelectCanonical
  \/ SkipEnrichment
  \/ SubmitEnrichment
  \/ \E k \in DOMAIN enrich : DomainCallReturns(k)
  \/ \E k \in DOMAIN enrich : IndustryCallReturns(k)
  \/ \E k \in DOMAIN enrich : CollectDomain(k)
  \/ \E k \in DOMAIN enrich : CollectIndustry(k)
  \/ ApplyEnrichment

Spec == Init /\ [][Next]_vars

\* the same program run on a column with missing cells
SpecMissing == InitMissing /\ [][Next]_vars

\* the first step of process on a column of suffixed names
NextSuffixes ==
  \/ Construct
  \/ CreateRows

SpecSuffixes == InitSuffixes /\ [][NextSuffixes]_vars

(***************************************************************************)
(* Properties                                                               *)
(***************************************************************************)
\* the ratio get_ratio gave for the two base names (b1 of the lower row)
RatioOf(b1, b2) ==
  IF b1 = b2 THEN 100 ELSE (CHOOSE e \in jw : e[1] = b1 /\ e[2] = b2)[3]

\* the pair of rows i < j is an accepted pairwise match: both base names are
\* non-empty, the block keys are equal, and the match condition holds
AcceptedMatch(i, j) ==
  /\ i < j
  /\ rows[i].base_name # <<>>
  /\ rows[j].base_name # <<>>
  /\ rows[i].block_key = rows[j].block_key
  /\ LET ratio == RatioOf(rows[i].base_name, rows[j].base_name)
         token_sorted_equal ==
           get_token_sorted_match(rows[i].base_name, rows[j].base_name)
     IN  \/ token_sorted_equal /\ ratio >= settings.soft
         \/ ratio >= settings.hard

\* the rows linked to a row of S by a chain of accepted matches
RECURSIVE Linked(_)
Linked(S) ==
  LET T == S \cup {j \in Idx : \E i \in S : AcceptedMatch(i, j) \/ AcceptedMatch(j, i)}
  IN  IF T = S THEN S ELSE Linked(T)

\* C1: when process has completed, two records have the same cluster_id if
\* and only if a chain of accepted pairwise matches links them
C1_ClusterIffLinked ==
  pc = "returned" =>
    \A i, j \in Idx : (rows[i].cluster_id = rows[j].cluster_id) <=> (j \in Linked({i}))

\* C1 witness: process has completed with three records in one cluster of
\* which the first and the last are not an accepted match themselves
C1_Witness ==
  /\ pc = "returned"
  /\ \E i, j, k \in Idx :
       /\ i < j /\ j < k
       /\ rows[i].cluster_id = rows[j].cluster_id
       /\ rows[j].cluster_id = rows[k].cluster_id
       /\ ~AcceptedMatch(i, k)

\* C4: union is called only on two records of one block that both have a
\* base name; so two records in one union-find set have the same block_key
\* and a record without a base name is alone in its set
C4_NoCrossBlockUnion ==
  /\ \A e \in accepted :
       /\ rows[e[1]].block_key = rows[e[2]].block_key
       /\ rows[e[1]].base_name # <<>>
       /\ rows[e[2]].base_name # <<>>
  /\ \A i, j \in DOMAIN parent :
       Root(parent, i) = Root(parent, j) /\ i # j =>
         /\ rows[i].block_key = rows[j].block_key
         /\ rows[i].base_name # <<>>
         /\ rows[j].base_name # <<>>

\* C4 witness: the merge loop has ended with two records in one set after a
\* union, and a record without a base name
C4_Witness ==
  /\ pc = "match" /\ pp > Len(pairs)
  /\ \E i, j \in Idx : i # j /\ Root(parent, i) = Root(parent, j)
  /\ \E i \in Idx : rows[i].base_name = <<>>
  /\ accepted # {}

\* C10: when process has completed, every cluster_id is a root of the final
\* parent list and is find of the record's index, and cluster_size is the
\* number of records with that cluster_id
C10_ClusterIdIsRoot ==
  pc = "returned" =>
    \A i \in Idx :
      /\ parent[rows[i].cluster_id] = rows[i].cluster_id
      /\ rows[i].cluster_id = Root(parent, i)
      /\ rows[i].cluster_size =
           Cardinality({j \in Idx : rows[j].cluster_id = rows[i].cluster_id})

\* C10 witness: process has completed with a cluster of two records, one of
\* them not its own root, and a cluster of one
C10_Witness ==
  /\ pc = "returned"
  /\ \E i \in Idx : rows[i].cluster_size = 2 /\ rows[i].cluster_id # i
  /\ \E i \in Idx : rows[i].cluster_size = 1

\* a is a prefix of b
IsPrefix(a, b) == Len(a) <= Len(b) /\ SubSeq(b, 1, Len(a)) = a

\* the confidence the Confidence Scorer gives the pair of rows i, j
ScoreOf(i, j) ==
  calculate_confidence(RatioOf(rows[i].base_name, rows[j].base_name),
                       get_token_sorted_match(rows[i].base_name, rows[j].base_name))[1]

\* the largest element of a set of numbers
Max(S) == CHOOSE x \in S : \A y \in S : y <= x

C3_MaxOverAcceptedMatches ==
  pc = "returned" =>
    \A i \in Idx :
      rows[i].base_name # <<>> =>
        rows[i].confidence =
          Max({70} \cup {ScoreOf(i, j) : j \in {k \in Idx : AcceptedMatch(i, k)}})

C6_BatchBarrier ==
  /\ ~ /\ \E k \in DOMAIN vfut : vfut[k].state = "running"
       /\ \E i \in Idx : rows[i].web_canonical # Unset
  /\ ~ /\ \E k \in DOMAIN enrich :
            enrich[k].domain_future = "running" \/ enrich[k].industry_future = "running"
       /\ \E i \in Idx : rows[i].website # Unset \/ rows[i].industry # Unset

\* C6 as amended: in the enrichment batch no record carries a website or an
\* industry before the batch has ended; in the verification batch a record
\* carries a web_canonical only when the call of its own cluster has been
\* completed and collected
C6_BarrierOnlyInEnrichment ==
  /\ pc = "enriching" =>
       \A i \in Idx : rows[i].website = Unset /\ rows[i].industry = Unset
  /\ pc = "verifying" =>
       \A i \in Idx :
         rows[i].web_canonical # Unset =>
           \E k \in DOMAIN vfut :
             /\ vfut[k].state = "collected"
             /\ i \in Range(to_verify[k][3])

\* C6 witness: in the enrichment batch the website of one name has been
\* collected while the call for another name is still running
C6_Witness ==
  /\ pc = "enriching"
  /\ \E k, m \in DOMAIN enrich :
       /\ enrich[k].domain_future = "collected"
       /\ enrich[k].website # <<>>
       /\ enrich[m].domain_future = "running"

\* the results of a successful call
HitWebCanonical == <<"G","E"," ","A","E","R","O","S","P","A","C","E">>

HitWebsite == <<"g","e",".","c","o","m">>

HitIndustry == <<"F","I","N","A","N","C","E">>

\* C7: a failing provider call never leaves process as an exception;
\* process returns one record per input row; the records of a failed
\* verification call have no web_canonical and their reason unchanged, the
\* name of a failed enrichment call gets the empty website (the fallback
\* industry), and the result of every call that succeeded is applied
C7_FailuresContained ==
  /\ pc # "raised"
  /\ pc = "returned" =>
       /\ DOMAIN rows = DOMAIN df
       /\ \A i \in Idx : rows[i].row_order = i /\ rows[i].original_name = df[i]
  /\ \A k \in DOMAIN vfut :
       vfut[k].state = "collected" =>
         \A i \in Range(to_verify[k][3]) :
           /\ vfut[k].resp \in {"raise", "empty"} =>
                rows[i].web_canonical = Unset /\ Len(rows[i].reason) = 1
           /\ vfut[k].resp = "hit" =>
                /\ rows[i].web_canonical =
                     IF settings.agentic THEN HitLegalName ELSE HitWebCanonical
                /\ Len(rows[i].reason) = 2
  /\ \A k \in DOMAIN enrich :
       /\ enrich[k].domain_future = "collected" =>
            /\ enrich[k].domain_resp \in {"raise", "empty"} => enrich[k].website = <<>>
            /\ enrich[k].domain_resp = "hit" => enrich[k].website = HitWebsite
       /\ enrich[k].industry_future = "collected" =>
            /\ enrich[k].industry_resp \in {"raise", "empty"} =>
                 enrich[k].industry = DiversifiedOther
            /\ enrich[k].industry_resp = "hit" => enrich[k].industry = HitIndustry
  /\ pc = "returned" /\ settings.enrichment =>
       \A i \in Idx :
         \E k \in DOMAIN enrich :
           /\ enrich[k].name = rows[i].canonical_name
           /\ rows[i].website = enrich[k].website
           /\ rows[i].industry = enrich[k].industry

\* C7 witness: process has returned after one verification call failed and
\* another succeeded, whose records carry the result
C7_Witness ==
  /\ pc = "returned"
  /\ \E k, m \in DOMAIN vfut :
       /\ vfut[k].resp = "raise"
       /\ vfut[m].resp = "hit"
       /\ \A i \in Range(to_verify[m][3]) : rows[i].web_canonical # Unset

\* what a step taken during the verification may change
VerificationStep ==
  /\ parent' = parent
  /\ clusters' = clusters
  /\ DOMAIN rows' = DOMAIN rows
  /\ \A i \in DOMAIN rows :
       /\ rows'[i] = [rows[i] EXCEPT !.web_canonical = rows'[i].web_canonical,
                                     !.reason = rows'[i].reason]
       /\ IsPrefix(rows[i].reason, rows'[i].reason)
       /\ rows'[i] # rows[i] =>
            \A j \in DOMAIN rows :
              rows[j].cluster_id = rows[i].cluster_id =>
                /\ rows'[j].web_canonical = rows'[i].web_canonical
                /\ rows'[j].web_canonical # Unset

\* C8: a step of the verification changes no cluster_id, cluster membership
\* or cluster_size; it changes only web_canonical and reason, a changed
\* reason has the previous one as a prefix, and all members of an annotated
\* cluster get the same web_canonical
C8_VerificationOnlyAnnotates ==
  [][(pc \in {"finalized", "verifying"}) => VerificationStep]_vars

\* C8 witness: the verification has annotated a cluster of two records
C8_Witness ==
  /\ pc = "verified"
  /\ \E i, j \in Idx :
       /\ i # j
       /\ rows[i].cluster_id = rows[j].cluster_id
       /\ rows[i].web_canonical # Unset
       /\ Len(rows[j].reason) = 2

\* C9 as stated: an engine that has been constructed has both thresholds
\* within [0, 1]
C9_ThresholdsValidated ==
  pc # "new" =>
    /\ 0 <= settings.hard /\ settings.hard <= 100
    /\ 0 <= settings.soft /\ settings.soft <= 100

\* the rows with the cluster_id of row i
ClusterOf(i) == {j \in Idx : rows[j].cluster_id = rows[i].cluster_id}

\* the number of rows of the set M with base name b
Freq(M, b) == Cardinality({j \in M : rows[j].base_name = b})

\* the smallest element of a set of numbers
Min(S) == CHOOSE x \in S : \A y \in S : x <= y

\* C11: once the canonical names are selected, all members of a cluster have
\* the same canonical_name; if a member has a base name, it is a member base
\* name of maximal frequency and of minimal length among those of maximal
\* frequency; otherwise it is the normalized_name of the first member
C11_CanonicalMostFrequentShortest ==
  pc \in {"canonical", "enriching", "returned"} =>
    \A i \in Idx :
      LET M == ClusterOf(i)
          B == {rows[j].base_name : j \in M} \ {<<>>}
          c == rows[i].canonical_name
      IN  /\ \A j \in M : rows[j].canonical_name = c
          /\ B # {} =>
               /\ c \in B
               /\ \A b \in B : Freq(M, b) <= Freq(M, c)
               /\ \A b \in B : Freq(M, b) = Freq(M, c) => Len(c) <= Len(b)
          /\ B = {} => c = rows[Min(M)].normalized_name

\* C11 witness: process has completed with a cluster whose canonical name is
\* its most frequent base name although a member has a shorter one
C11_Witness ==
  /\ pc = "returned"
  /\ \E i, j \in Idx :
       /\ rows[i].cluster_id = rows[j].cluster_id
       /\ rows[j].base_name # <<>>
       /\ Len(rows[j].base_name) < Len(rows[i].canonical_name)
       /\ Freq(ClusterOf(i), rows[i].canonical_name) = 2

\* the fixed reason of a record without a base name
SingletonReason ==
  << [tag |-> "No base name after cleaning; kept as singleton", text |-> <<>>] >>

\* C12: process never fails on a record whose name is null, empty or reduces
\* to an empty base name; the record has block_key "NONE", is never unioned
\* with another record and never sent to the verification provider, ends
\* with confidence 0.50 and the fixed reason, cluster_size 1 and its
\* normalized_name as canonical_name
C12_EmptyBaseIsSingleton ==
  /\ pc # "raised"
  /\ \A i \in DOMAIN rows :
       /\ df[i] \in {NaN, <<>>} => rows[i].normalized_name = <<>>
       /\ rows[i].normalized_name = <<>> => rows[i].base_name = <<>>
       /\ rows[i].base_name = <<>> =>
            /\ rows[i].block_key = NONE
            /\ \A j \in DOMAIN parent : j # i => Root(parent, j) # Root(parent, i)
            /\ \A e \in accepted : e[1] # i /\ e[2] # i
            /\ \A k \in DOMAIN to_verify : i \notin Range(to_verify[k][3])
            /\ rows[i].web_canonical = Unset
            /\ pc \notin {"rows", "match"} =>
                 /\ rows[i].cluster_id = i
                 /\ rows[i].confidence = 50
                 /\ rows[i].reason = SingletonReason
            /\ pc \in {"canonical", "enriching", "returned"} =>
                 /\ rows[i].cluster_size = 1
                 /\ rows[i].canonical_name = rows[i].normalized_name
  /\ pc = "returned" => DOMAIN rows = DOMAIN df

\* C12 witness: process has returned the records of a null cell and of a
\* name made of a legal suffix, next to a cluster that was verified
C12_Witness ==
  /\ pc = "returned"
  /\ settings.web_search
  /\ \E i, j \in Idx :
       /\ df[i] = NaN /\ rows[i].confidence = 50 /\ rows[i].canonical_name = <<>>
       /\ rows[j].base_name # <<>> /\ rows[j].web_canonical # Unset

\* the answer the verification provider gave for the cluster of row i, "none"
\* when no call was made for it or its result has not been read yet
AnswerOf(i) ==
  IF \E k \in DOMAIN vfut : vfut[k].state = "collected" /\ i \in Range(to_verify[k][3])
  THEN vfut[CHOOSE k \in DOMAIN vfut :
              vfut[k].state = "collected" /\ i \in Range(to_verify[k][3])].resp
  ELSE "none"

\* the entry of enriched_data for the canonical name of row i
EntryOf(i) == CHOOSE k \in DOMAIN enrich : enrich[k].name = rows[i].canonical_name

\* what the verification and the enrichment have written is a function of the
\* answers read so far, whatever the order they were read in
KeyedResults ==
  /\ pc \in {"verifying", "verified", "canonical"} \/ (pc = "returned" /\ vfut # <<>>) =>
       \A i \in Idx :
         IF AnswerOf(i) = "hit"
         THEN /\ rows[i].web_canonical =
                   IF settings.agentic THEN HitLegalName ELSE HitWebCanonical
              /\ SubSeq(rows[i].reason, 2, Len(rows[i].reason)) =
                   IF settings.agentic
                   THEN << [tag |-> " | AI Verified: ", text |-> HitReason] >>
                   ELSE << [tag |-> " | Web verified: ", text |-> HitWebCanonical] >>
         ELSE rows[i].web_canonical = Unset /\ Len(rows[i].reason) = 1
  /\ pc = "returned" /\ settings.enrichment =>
       \A i \in Idx :
         /\ \E k \in DOMAIN enrich : enrich[k].name = rows[i].canonical_name
         /\ rows[i].website =
              IF enrich[EntryOf(i)].domain_resp = "hit" THEN HitWebsite ELSE <<>>
         /\ rows[i].industry =
              classify_industry(settings, rows[i].canonical_name,
                                enrich[EntryOf(i)].industry_resp)

\* what a step of the verification or of the enrichment leaves alone
SequentialFieldsKept ==
  /\ UNCHANGED cvars
  /\ DOMAIN rows' = DOMAIN rows
  /\ \A i \in DOMAIN rows :
       /\ rows'[i].cluster_id = rows[i].cluster_id
       /\ rows'[i].cluster_size = rows[i].cluster_size
       /\ rows'[i].canonical_name = rows[i].canonical_name
       /\ rows'[i].confidence = rows[i].confidence
       /\ rows'[i].reason[1] = rows[i].reason[1]

\* C13: for a fixed input, configuration and fixed provider answers the
\* records process returns are the same in every execution: the fields the
\* sequential steps set are not touched while calls are in flight, and
\* web_canonical, the appended reason, website and industry are a function of
\* the answers, whatever order the calls complete in
C13_CompletionOrderIrrelevant ==
  /\ []KeyedResults
  /\ [][(pc \in {"verifying", "enriching"}) => SequentialFieldsKept]_vars

\* C13 witness: the second call of the verification batch was read, and its
\* answer applied, while the first one is still running
C13_Witness ==
  /\ pc = "verifying"
  /\ Len(vfut) = 2
  /\ vfut[1].state = "running"
  /\ vfut[2].state = "collected" /\ vfut[2].resp = "hit"
  /\ \A i \in Range(to_verify[2][3]) : rows[i].web_canonical # Unset

\* C14 as stated: for a name made of a base token followed by zero or more
\* space-separated legal suffixes, strip_suffixes returns the base token, so
\* the row step 1 builds has the base token as base_name
C14_StripReturnsBaseToken ==
  pc = "rows" =>
    \A i \in Idx :
      /\ df[i] \in SuffixedNames(MaxSuffixes)
      /\ KnownSuffixes \subseteq Range(suffixes)
      => /\ rows[i].normalized_name = df[i]
         /\ strip_suffixes(df[i]) = BaseToken
         /\ rows[i].base_name = BaseToken

\* the index reached from k by following n parent pointers
RECURSIVE Follow(_, _, _)
Follow(p, k, n) == IF n = 0 THEN k ELSE Follow(p, p[k], n - 1)

\* every index reaches a self-parented root by following parent pointers
IsForest(p) ==
  LET size == Cardinality(DOMAIN p)
  IN  \A k \in DOMAIN p :
        /\ p[k] \in DOMAIN p
        /\ p[Follow(p, k, size)] = Follow(p, k, size)

\* what the call union(i, j) of the current iteration of the merge loop does
UnionStep ==
  LET i  == pairs[pp][1]
      j  == pairs[pp][2]
      ri == Root(parent, i)
      rj == Root(parent, j)
  IN  IF ri # rj
      THEN \A k \in DOMAIN parent :
             Root(parent', k) = IF Root(parent, k) \in {ri, rj} THEN rj
                                ELSE Root(parent, k)
      ELSE /\ \A k \in DOMAIN parent : Root(parent', k) = Root(parent, k)
           /\ \A k \in DOMAIN rows :
                /\ rows'[k].confidence = rows[k].confidence
                /\ rows'[k].reason = rows[k].reason

\* C15: the parent list is always a forest; a union of records with
\* different roots makes the former root of j the root of all records of
\* both sets and keeps every other root; a union of records with one root
\* keeps the partition and every confidence and reason
C15_UnionFind ==
  /\ []IsForest(parent)
  /\ [][(pc = "match" /\ pp <= Len(pairs) /\ pairs[pp] \in accepted') => UnionStep]_vars

\* C15 witness: the merge loop has joined a set of two records to a third
\* record and then called union for two records of the resulting set
C15_Witness ==
  /\ pc = "match"
  /\ pp > Len(pairs)
  /\ Cardinality(accepted) = 3
  /\ Cardinality(merges) = 2
  /\ \A k \in Idx : Root(parent, k) = 2

\* the reason the Confidence Scorer pairs with a confidence value
ReasonOf(conf) ==
  IF conf = 98 THEN calculate_confidence(90, TRUE)[2]
  ELSE IF conf = 95 THEN calculate_confidence(90, FALSE)[2]
  ELSE IF conf = 88 THEN calculate_confidence(85, FALSE)[2]
  ELSE calculate_confidence(0, FALSE)[2]

\* C16 as stated, for an engine whose thresholds are within [0, 1]: when the
\* merge loop has ended, the reason of every record is the one the Confidence
\* Scorer pairs with the record's confidence
C16_ReasonMatchesConfidence ==
  /\ pc = "match" /\ pp > Len(pairs)
  /\ settings.hard \in 0..100 /\ settings.soft \in 0..100
  => \A i \in Idx :
       /\ rows[i].confidence \in {98, 95, 88, 70}
       /\ rows[i].reason = << [tag |-> ReasonOf(rows[i].confidence), text |-> <<>>] >>

=============================================================================
